---- MODULE Spec2Model ----
(***************************************************************************)
(* Model of engine/file_handler.py: DataHandler (raw file I/O and codecs),  *)
(* BaseHandler (save_file / load_file pipelines with lifecycle hooks) and  *)
(* ConfigHandler (YAML-bound handler merging loaded data into the          *)
(* process-wide configData object).                                        *)
(*                                                                         *)
(* One handler is constructed by the caller and then driven through        *)
(* save_file(), load_file() and update_global(); the environment may edit  *)
(* the file, remove the directory, change permissions, and the caller may  *)
(* change attributes of the configuration objects.                         *)
(***************************************************************************)
EXTENDS Integers, FiniteSets, Sequences, TLC

\* ---------------------------------------------------------------- bounds
MaxVal == 2     \* encodable attribute values are 1..MaxVal
MaxOps == 2     \* operations performed after construction

\* ------------------------------------------------------------ value model
Keys == {"a", "b", "c"}          \* attribute names
DeclaredFields == {"a", "b"}     \* declared fields of the ConfigData class
Unenc == 0                       \* a Python object no JSON encoder accepts
Vals == 0..MaxVal
EmptyMap == [k \in {} |-> 0]

\* A Python value: t = "map" (dict with str keys, contents m), "scalar",
\* "seq" (list), "null" (None).  fmt = "none" for an in-memory value;
\* a str holding file text carries the syntax it is written in
\* ("json", "yaml", "toml", or "bad" for text no parser accepts).
PyNone == [t |-> "null", m |-> EmptyMap, fmt |-> "none"]
MapVal(m) == [t |-> "map", m |-> m, fmt |-> "none"]
Scalar == [t |-> "scalar", m |-> EmptyMap, fmt |-> "none"]
IsText(v) == v.fmt # "none"
IsNone(v) == v = PyNone
HasUnenc(v) == \E k \in DOMAIN v.m : v.m[k] = Unenc

\* Texts another program may leave in the file.
FileTexts ==
    {[t |-> "map", m |-> [b |-> 1, c |-> 2], fmt |-> f] : f \in {"json", "yaml", "toml"}}
    \cup {[t |-> "map", m |-> EmptyMap, fmt |-> f] : f \in {"yaml", "toml"}}
    \cup {[t |-> tt, m |-> EmptyMap, fmt |-> f] : tt \in {"scalar", "null"},
                                                  f \in {"json", "yaml"}}
    \cup {[t |-> "seq", m |-> EmptyMap, fmt |-> "yaml"],
          [t |-> "null", m |-> EmptyMap, fmt |-> "bad"]}

NoFile == [t |-> "absent", m |-> EmptyMap, fmt |-> "none"]

ObjIds == {"G", "O"}      \* G: instances.configData; O: another ConfigData

VARIABLES
    constructed,     \* a handler exists
    kind,            \* "Base" (BaseHandler) or "Config" (ConfigHandler)
    serialize_json, serialize_yaml, serialize_toml,
    class_obj,       \* self.class_obj: the object the handler was built with
    class_data,      \* self.class_data: [ref, val]; ref # "none" aliases objs[ref]
    has_dir,         \* file_path has a directory component
    objs,            \* __dict__ of each configuration object
    is_dataclass,    \* ConfigData is a dataclass
    configData,      \* the module-level name configData
    dir_exists,      \* the directory of file_path exists
    file,            \* content of file_path, or NoFile
    access,          \* the file and directory may be opened
    op,              \* last call made by the caller
    raised,          \* exception that reached the caller of op
    hook,            \* lifecycle hook invoked by op: "none" or its name
    hook_exc,        \* exception raised inside the hook
    enc,             \* outcome of the encode step: notrun/value/none/unbound
    dec,             \* outcome of the decode step: notrun/value/none/skipped
    codec,           \* codec function called by op
    wrote,           \* op wrote the file
    made_dir,        \* op created the directory
    diag,            \* op printed a diagnostic
    pre_class_data,  \* value of class_data before op
    pre_objs,        \* objs before op
    steps

vars == <<constructed, kind, serialize_json, serialize_yaml, serialize_toml,
          class_obj, class_data, has_dir, objs, is_dataclass, configData,
          dir_exists, file, access, op, raised, hook, hook_exc, enc, dec,
          codec, wrote, made_dir, diag, pre_class_data, pre_objs, steps>>

handlerVars == <<constructed, kind, serialize_json, serialize_yaml,
                 serialize_toml, class_obj, has_dir, is_dataclass>>

\* ----------------------------------------------------------- DataHandler
\* ujson.dumps(data, indent=4) raises TypeError on a non-serializable value.
JsonEncodable(v) == ~HasUnenc(v)

\* _serialize_json: the JSON text, or None after printing the error.
serialize_json_fn(v) ==
    IF ~JsonEncodable(v) THEN PyNone
    ELSE IF IsText(v) THEN [Scalar EXCEPT !.fmt = "json"]
    ELSE [v EXCEPT !.fmt = "json"]

\* _serialize_yaml: yaml.dump with the default dumper represents any object.
serialize_yaml_fn(v) ==
    IF IsText(v) THEN [Scalar EXCEPT !.fmt = "yaml"]
    ELSE [v EXCEPT !.fmt = "yaml"]

\* ujson.loads accepts JSON text only ("{}" is also what yaml.dump({}) prints).
JsonParses(text) ==
    \/ text.fmt = "json"
    \/ text.fmt = "yaml" /\ text.t = "map" /\ text.m = EmptyMap

\* yaml.safe_load accepts YAML, and JSON as its flow syntax, but rejects the
\* python object tags yaml.dump emits; TOML "k = v" lines and empty text are
\* valid YAML too (a plain scalar, resp. the null document).
YamlParses(text) ==
    \/ text.fmt \in {"yaml", "json"} /\ ~HasUnenc(text)
    \/ text.fmt = "toml"

\* tomllib.loads accepts TOML text only.
TomlParses(text) == text.fmt = "toml" /\ text.t = "map"

\* _deserialize_json: the parsed value, or None after printing the error.
deserialize_json_fn(text) ==
    IF JsonParses(text) THEN [text EXCEPT !.fmt = "none"] ELSE PyNone

deserialize_yaml_fn(text) ==
    IF ~YamlParses(text) THEN PyNone
    ELSE IF text.fmt = "toml" THEN (IF text.m = EmptyMap THEN PyNone ELSE Scalar)
    ELSE [text EXCEPT !.fmt = "none"]

deserialize_toml_fn(text) ==
    IF TomlParses(text) THEN [text EXCEPT !.fmt = "none"] ELSE PyNone

\* open(file_path, 'w') succeeds iff the parent directory exists and is
\* accessible; write_file then returns True, otherwise prints and returns None.
ParentExists == ~has_dir \/ dir_exists

\* Faulty variant: the directory is created again before the file is opened.
write_file_makedirs == access

write_file_ok == ParentExists /\ access

\* open(file_path, 'r') succeeds iff the file exists and is accessible;
\* read_file otherwise prints and returns None.
read_file_ok == ParentExists /\ access /\ file # NoFile

\* --------------------------------------------------------- BaseHandler
\* dataclasses.asdict(obj): a copy of the declared fields.
asdict(o) == [k \in DeclaredFields \cap DOMAIN objs[o] |-> objs[o][k]]

\* The value self.class_data currently denotes.
ClassData ==
    IF class_data.ref # "none" THEN MapVal(objs[class_data.ref]) ELSE class_data.val

Init ==
    /\ constructed = FALSE
    /\ kind = "Base"
    /\ serialize_json = FALSE /\ serialize_yaml = FALSE /\ serialize_toml = FALSE
    /\ class_obj = "G"
    /\ class_data = [ref |-> "none", val |-> PyNone]
    /\ has_dir = FALSE
    /\ objs = [o \in ObjIds |-> [a |-> 1, b |-> 2]]
    /\ is_dataclass \in BOOLEAN
    /\ configData = "G"
    /\ dir_exists = FALSE
    /\ file = NoFile
    /\ access = TRUE
    /\ op = "init" /\ raised = "none" /\ hook = "none" /\ hook_exc = "none"
    /\ enc = "notrun" /\ dec = "notrun" /\ codec = "none"
    /\ wrote = FALSE /\ made_dir = FALSE /\ diag = FALSE
    /\ pre_class_data = PyNone
    /\ pre_objs = objs
    /\ steps = 0

\* The bookkeeping of one call: what it did and what reached the caller.
Track(o, r, h, he, e, d, c, w, md, dg) ==
    /\ op' = o /\ raised' = r /\ hook' = h /\ hook_exc' = he
    /\ enc' = e /\ dec' = d /\ codec' = c
    /\ wrote' = w /\ made_dir' = md /\ diag' = dg
    /\ pre_class_data' = ClassData
    /\ pre_objs' = objs

Flag(arg) == arg = "true"     \* an omitted flag takes the default False

\* BaseHandler.__init__ / ConfigHandler.__init__
\* k: class, j/y/t: the serialize_* keyword ("absent", "true", "false"),
\* o: the object passed, d: file_path has a directory component.
Construct(k, j, y, t, o, d) ==
    /\ ~constructed
    /\ IF k = "Config" /\ y # "absent"
       THEN \* super().__init__(..., **kwargs, serialize_yaml=True): TypeError,
            \* got multiple values for keyword argument 'serialize_yaml'
            /\ Track("construct", "TypeError", "none", "none",
                     "notrun", "notrun", "none", FALSE, FALSE, FALSE)
            /\ UNCHANGED <<handlerVars, class_data, objs, configData,
                           dir_exists, file, access, steps>>
       ELSE /\ constructed' = TRUE
            /\ kind' = k
            /\ serialize_json' = Flag(j)
            /\ serialize_yaml' = IF k = "Config" THEN TRUE ELSE Flag(y)
            /\ serialize_toml' = Flag(t)
            /\ class_obj' = o
            /\ class_data' = IF is_dataclass
                             THEN [ref |-> "none", val |-> MapVal(asdict(o))]
                             ELSE [ref |-> o, val |-> PyNone]
            /\ has_dir' = d
            /\ dir_exists' = (d \/ dir_exists)
            /\ Track("construct", "none", "none", "none",
                     "notrun", "notrun", "none", FALSE, d /\ ~dir_exists, FALSE)
            /\ UNCHANGED <<objs, is_dataclass, configData, file, access, steps>>

\* Faulty variant: the handler lets NotImplementedError through.
CaughtExceptNotImplemented(e) == e # "NotImplementedError"

\* except Exception (lines 127 and 148) catches every exception class here.
Caught(e) == TRUE

\* on_saved_file: the exception the hook raises, "none" if it returns.
on_saved_file == IF kind = "Base" THEN "NotImplementedError" ELSE "none"

\* Faulty variant: the None check is missing.
AbortsNever(data) == FALSE

\* line 116/119 (and 138/141/144): if data is None: return
Aborts(data) == IsNone(data)

\* Faulty variant: the hook runs whatever write_file returned.
HookAlways(result) == TRUE

\* line 125: if Result
HookAfterWrite(result) == result

SaveCodec ==
    IF serialize_json THEN "json" ELSE IF serialize_yaml THEN "yaml" ELSE "none"

\* BaseHandler.save_file
save_file ==
    /\ constructed /\ steps < MaxOps
    /\ steps' = steps + 1
    /\ LET c == SaveCodec
           data == IF c = "json" THEN serialize_json_fn(ClassData)
                   ELSE serialize_yaml_fn(ClassData)
       IN  IF c = "none"
           THEN \* data is unbound at line 124: UnboundLocalError, caught at 127
                /\ Track("save", IF Caught("UnboundLocalError") THEN "none"
                                 ELSE "UnboundLocalError",
                         "none", "none", "unbound", "notrun", "none",
                         FALSE, FALSE, TRUE)
                /\ UNCHANGED file
           ELSE IF Aborts(data)
           THEN /\ Track("save", "none", "none", "none", "none", "notrun", c,
                         FALSE, FALSE, TRUE)
                /\ UNCHANGED file
           ELSE LET result == write_file_ok
                    called == HookAfterWrite(result)
                    exc == IF called THEN on_saved_file ELSE "none"
                IN  /\ file' = IF result THEN data ELSE file
                    /\ Track("save",
                             IF exc # "none" /\ ~Caught(exc) THEN exc ELSE "none",
                             IF called THEN "on_saved_file" ELSE "none",
                             exc,
                             IF IsNone(data) THEN "none" ELSE "value",
                             "notrun", c, result, FALSE,
                             ~result \/ exc # "none")
    /\ UNCHANGED <<handlerVars, class_data, objs, configData, dir_exists, access>>

LoadCodec ==
    IF serialize_json THEN "json"
    ELSE IF serialize_yaml THEN "yaml"
    ELSE IF serialize_toml THEN "toml" ELSE "none"

Decode(c, text) ==
    CASE c = "json" -> deserialize_json_fn(text)
      [] c = "yaml" -> deserialize_yaml_fn(text)
      [] c = "toml" -> deserialize_toml_fn(text)
      [] OTHER -> text          \* no branch taken: data stays the text read

\* The codec printed an error (its except clause ran).
DecodeFailed(c, text) ==
    CASE c = "json" -> ~JsonParses(text)
      [] c = "yaml" -> ~YamlParses(text)
      [] c = "toml" -> ~TomlParses(text)
      [] OTHER -> FALSE

\* Faulty variant: a scalar is accepted as an empty mapping.
UpdatableOrScalar(data) == data.t \in {"map", "scalar"} /\ data.fmt = "none"

\* dict.update(**data) needs a mapping with str keys, else TypeError.
Updatable(data) == data.t = "map" /\ ~IsText(data)

\* Faulty variant: the attribute mapping is replaced wholesale.
dict_replace(G, R) == R

\* G.__dict__.update(**R)
dict_update(G, R) ==
    [k \in DOMAIN G \cup DOMAIN R |-> IF k \in DOMAIN R THEN R[k] ELSE G[k]]

\* Faulty variant: the merge goes to the object the handler was built with.
MergeIntoOwnObject == class_obj

\* line 177-178: the object whose __dict__ update_global writes.
MergeTarget == configData

\* ConfigHandler.update_global / BaseHandler.update_global on value `data`:
\* the exception raised ("none" if it returns).
update_global_exc(data) ==
    IF kind = "Base" THEN "NotImplementedError"
    ELSE IF Updatable(data) THEN "none" ELSE "TypeError"

update_global_objs(data) ==
    IF kind = "Config" /\ Updatable(data)
    THEN [objs EXCEPT ![MergeTarget] = dict_update(objs[MergeTarget], data.m)]
    ELSE objs

\* BaseHandler.load_file
load_file ==
    /\ constructed /\ steps < MaxOps
    /\ steps' = steps + 1
    /\ IF ~read_file_ok
       THEN /\ Track("load", "none", "none", "none", "notrun", "notrun", "none",
                     FALSE, FALSE, TRUE)
            /\ UNCHANGED <<class_data, objs>>
       ELSE LET c == LoadCodec
                data == Decode(c, file)
            IN  IF c # "none" /\ Aborts(data)
                THEN /\ Track("load", "none", "none", "none", "notrun", "none", c,
                              FALSE, FALSE, DecodeFailed(c, file))
                     /\ UNCHANGED <<class_data, objs>>
                ELSE LET exc == update_global_exc(data)
                     IN  /\ class_data' = [ref |-> "none", val |-> data]
                         /\ objs' = update_global_objs(data)
                         /\ Track("load",
                                  IF exc # "none" /\ ~Caught(exc) THEN exc ELSE "none",
                                  "on_loaded_file", exc, "notrun",
                                  IF c = "none" THEN "skipped" ELSE "value", c,
                                  FALSE, FALSE, exc # "none")
    /\ UNCHANGED <<handlerVars, configData, dir_exists, file, access>>

\* A direct call of update_global() by the caller (not inside a try).
update_global ==
    /\ constructed /\ steps < MaxOps
    /\ steps' = steps + 1
    /\ objs' = update_global_objs(ClassData)
    /\ Track("update_global", update_global_exc(ClassData), "none", "none",
             "notrun", "notrun", "none", FALSE, FALSE, FALSE)
    /\ UNCHANGED <<handlerVars, class_data, configData, dir_exists, file, access>>

Quiet(o) ==
    Track(o, "none", "none", "none", "notrun", "notrun", "none", FALSE, FALSE, FALSE)

\* The caller assigns an attribute of a configuration object.
SetAttr(o, k, v) ==
    /\ constructed /\ steps < MaxOps
    /\ steps' = steps + 1
    /\ objs' = [objs EXCEPT ![o] = [x \in DOMAIN objs[o] \cup {k} |->
                                       IF x = k THEN v ELSE objs[o][x]]]
    /\ Quiet("setattr")
    /\ UNCHANGED <<handlerVars, class_data, configData, dir_exists, file, access>>

\* Another program writes the file.
ExternalWrite(text) ==
    /\ constructed /\ steps < MaxOps /\ ParentExists
    /\ steps' = steps + 1
    /\ file' = text
    /\ Quiet("env")
    /\ UNCHANGED <<handlerVars, class_data, objs, configData, dir_exists, access>>

\* The directory of file_path is removed with its content.
RemoveDir ==
    /\ constructed /\ steps < MaxOps /\ has_dir /\ dir_exists
    /\ steps' = steps + 1
    /\ dir_exists' = FALSE
    /\ file' = NoFile
    /\ Quiet("env")
    /\ UNCHANGED <<handlerVars, class_data, objs, configData, access>>

\* Permissions of the path are revoked or restored.
Chmod ==
    /\ constructed /\ steps < MaxOps
    /\ steps' = steps + 1
    /\ access' = ~access
    /\ Quiet("env")
    /\ UNCHANGED <<handlerVars, class_data, objs, configData, dir_exists, file>>

Next ==
    \/ \E k \in {"Base", "Config"}, j, y, t \in {"absent", "true", "false"},
          o \in ObjIds, d \in BOOLEAN : Construct(k, j, y, t, o, d)
    \/ save_file
    \/ load_file
    \/ update_global
    \/ \E o \in ObjIds, k \in Keys, v \in Vals : SetAttr(o, k, v)
    \/ \E text \in FileTexts : ExternalWrite(text)
    \/ RemoveDir
    \/ Chmod

Spec == Init /\ [][Next]_vars

\* ===================================================================
\* Properties
\* ===================================================================
G == "G"
Flags == {f \in {"json", "yaml", "toml"} :
            \/ f = "json" /\ serialize_json
            \/ f = "yaml" /\ serialize_yaml
            \/ f = "toml" /\ serialize_toml}

\* The encode step of a save from the current state yields text.
EncodeYields ==
    /\ SaveCodec # "none"
    /\ ~IsNone(IF SaveCodec = "json" THEN serialize_json_fn(pre_class_data)
               ELSE serialize_yaml_fn(pre_class_data))

\* The read step of a load from the current state fails.
ReadFails == (has_dir /\ ~dir_exists) \/ ~access \/ file = NoFile

\* The decode step of a load from the current state yields no value.
DecodeYieldsNone ==
    ~ReadFails /\ LoadCodec # "none" /\ IsNone(Decode(LoadCodec, file))

\* Every key of record R is an attribute of object o with R's value.
HasAll(o, R) == \A k \in DOMAIN R : k \in DOMAIN objs[o] /\ objs[o][k] = R[k]

\* Object o kept every attribute that R does not name.
KeptOthers(o, R) ==
    \A k \in DOMAIN pre_objs[o] \ DOMAIN R :
        k \in DOMAIN objs[o] /\ objs[o][k] = pre_objs[o][k]

\* The record derived from the owned object now (dataclasses.asdict or __dict__).
DerivedNow == IF is_dataclass THEN asdict(class_obj) ELSE objs[class_obj]

\* ------------------------------------------------------------------ C1
\* C1 (as stated): save() on a base entity whose encode and write succeed,
\* and load() on a base entity whose read and decode succeed, fail with
\* NotImplemented that propagates to the caller.
C1_NotImplementedPropagates ==
    /\ (op = "save" /\ kind = "Base" /\ EncodeYields /\ wrote
            => raised = "NotImplementedError")
    /\ (op = "load" /\ kind = "Base" /\ dec = "value"
            => raised = "NotImplementedError")

\* C1 (amended): on a base entity the NotImplemented failure arises exactly
\* at the hook invocation step (after a successful write, resp. after
\* entity_data was replaced), it is caught by save()/load() themselves, a
\* diagnostic is printed, and no exception reaches the caller of save() or
\* load().
C1_NotImplementedCaughtAtHook ==
    /\ (op = "save" /\ kind = "Base" /\ EncodeYields /\ wrote
            => hook = "on_saved_file" /\ hook_exc = "NotImplementedError" /\ diag)
    /\ (op = "load" /\ kind = "Base" /\ dec \in {"value", "skipped"}
            => hook = "on_loaded_file" /\ hook_exc = "NotImplementedError" /\ diag)
    /\ (op = "save" /\ hook_exc = "NotImplementedError" => EncodeYields /\ wrote)
    /\ (op = "load" /\ hook_exc = "NotImplementedError"
            => ~ReadFails /\ ~DecodeYieldsNone /\ ClassData = Decode(LoadCodec, file))
    /\ (op \in {"save", "load"} => raised = "none")

C1_Witness ==
    /\ op = "save" /\ kind = "Base" /\ wrote
    /\ hook = "on_saved_file" /\ hook_exc = "NotImplementedError"

\* ------------------------------------------------------------------ C2
\* C2: every save() writes the encoding of the owned object's fields as
\* they are when save() runs.
C2_SaveWritesCurrentFields ==
    op = "save" /\ wrote => file.t = "map" /\ file.m = DerivedNow

\* ------------------------------------------------------------------ C3
\* C3: a ConfigPersistence can be constructed with any combination of
\* format flags and always encodes and decodes with the YAML codec.
C3_ConfigAlwaysYaml ==
    /\ (op = "construct" => raised = "none")
    /\ (kind = "Config" /\ op \in {"save", "load"} /\ codec # "none"
            => codec = "yaml")

\* ------------------------------------------------------------------ C4
\* C4: update_global() is a shallow merge: afterwards the global object has
\* R's value for every key of R, keeps its value for every other key it
\* had, loses no key, and is still the same instance.
C4_UpdateGlobalMerges ==
    /\ (op = "update_global" /\ kind = "Config" /\ raised = "none"
            => /\ HasAll(G, pre_class_data.m)
               /\ KeptOthers(G, pre_class_data.m)
               /\ DOMAIN pre_objs[G] \subseteq DOMAIN objs[G])
    /\ (op = "load" /\ kind = "Config" /\ hook = "on_loaded_file" /\ hook_exc = "none"
            => /\ HasAll(G, ClassData.m)
               /\ KeptOthers(G, ClassData.m)
               /\ DOMAIN pre_objs[G] \subseteq DOMAIN objs[G])
    /\ configData = G

\* G = {a:1, b:2}, R = {b:1, c:2} gives {a:1, b:1, c:2}.
C4_Witness ==
    /\ op = "load" /\ kind = "Config" /\ hook_exc = "none" /\ hook = "on_loaded_file"
    /\ pre_objs[G] = [a |-> 1, b |-> 2]
    /\ ClassData.m = [b |-> 1, c |-> 2]
    /\ objs[G] = [a |-> 1, b |-> 1, c |-> 2]

\* ------------------------------------------------------------------ C5
\* C5 (as stated): a load() whose read fails or whose decoding yields no
\* value prints a diagnostic, raises nothing, leaves entity_data and the
\* global object unchanged and does not invoke on_loaded_file.
C5_FailedLoadChangesNothing ==
    op = "load" /\ (ReadFails \/ DecodeYieldsNone)
        => /\ diag
           /\ raised = "none"
           /\ ClassData = pre_class_data
           /\ hook = "none"
           /\ objs = pre_objs

\* C5 (amended): a load() whose read fails or whose decoding yields no
\* value raises nothing, leaves entity_data and the global object unchanged
\* and does not invoke on_loaded_file; it prints a diagnostic when the read
\* fails or the text is malformed, and prints nothing when well-formed text
\* decodes to the null value (an empty YAML document, JSON null).
C5_FailedLoadChangesNothingQuietOnNull ==
    op = "load" /\ (ReadFails \/ DecodeYieldsNone)
        => /\ raised = "none"
           /\ ClassData = pre_class_data
           /\ hook = "none"
           /\ objs = pre_objs
           /\ (diag <=> ReadFails \/ DecodeFailed(LoadCodec, file))

C5_Witness ==
    /\ op = "load" /\ DecodeYieldsNone /\ ~DecodeFailed(LoadCodec, file)
    /\ ~diag /\ pre_class_data.t = "map" /\ ClassData = pre_class_data

\* ------------------------------------------------------------------ C6
\* C6: save() writes the file only if encoding produced a value and calls
\* on_saved_file iff encoding produced a value and the write succeeded;
\* with no encoded value (TOML selected included) nothing is written, no
\* hook runs and nothing is raised; a failed write means no hook and no
\* exception.
C6_SavePipeline ==
    op = "save"
        => /\ (wrote => EncodeYields)
           /\ (hook = "on_saved_file" <=> EncodeYields /\ wrote)
           /\ (wrote <=> EncodeYields /\ ParentExists /\ access)
           /\ (~EncodeYields => ~wrote /\ hook = "none" /\ raised = "none")
           /\ (EncodeYields /\ ~wrote => hook = "none" /\ raised = "none")
           /\ (wrote => file # NoFile /\ file.fmt = SaveCodec)

C6_Witness ==
    /\ op = "save" /\ Flags = {"toml"} /\ ParentExists /\ access
    /\ ~wrote /\ hook = "none" /\ raised = "none"

\* ------------------------------------------------------------------ C7
\* C7: in every reachable state of a constructed entity exactly one format
\* flag is enabled, and load() never stores the undecoded file text.
C7_ExactlyOneFormat ==
    constructed
        => /\ Cardinality(Flags) = 1
           /\ (op = "load" /\ hook = "on_loaded_file" => ~IsText(ClassData))

\* ------------------------------------------------------------------ C8
\* C8 (as stated): after a successful load() of a ConfigPersistence every
\* key of the decoded record is an attribute, with the loaded value, of the
\* object the entity was constructed with.
C8_LoadMutatesOwnObject ==
    op = "load" /\ kind = "Config" /\ hook = "on_loaded_file" /\ hook_exc = "none"
        => HasAll(class_obj, ClassData.m)

\* C8 (amended): after a successful load() of a ConfigPersistence every key
\* of the decoded record is an attribute, with the loaded value, of the
\* process-wide configData instance; an object passed at construction that
\* is not that instance is left as it was.
C8_LoadMutatesGlobalObject ==
    op = "load" /\ kind = "Config" /\ hook = "on_loaded_file" /\ hook_exc = "none"
        => /\ HasAll(G, ClassData.m)
           /\ (class_obj # G => objs[class_obj] = pre_objs[class_obj])

C8_Witness ==
    /\ op = "load" /\ kind = "Config" /\ hook = "on_loaded_file" /\ hook_exc = "none"
    /\ class_obj = "O"
    /\ ClassData.m = [b |-> 1, c |-> 2]
    /\ objs[G] # pre_objs[G]
    /\ ~HasAll("O", ClassData.m)

\* ------------------------------------------------------------------ C9
\* C9 (as stated): the parent directory exists after construction, and a
\* save() that reaches its write step creates it when missing and writes
\* the file.
C9_DirectoryCreatedOnDemand ==
    /\ (op = "construct" /\ raised = "none" => ParentExists)
    /\ (op = "save" /\ EncodeYields /\ access => wrote /\ ParentExists)

\* C9 (amended): the parent directory exists after construction; save()
\* never creates it: a save() that reaches its write step while the
\* directory is missing writes nothing, leaves the directory missing,
\* prints a diagnostic, calls no hook and raises nothing.
C9_DirectoryCreatedAtConstructionOnly ==
    /\ (op = "construct" /\ raised = "none" => ParentExists)
    /\ (op = "save" /\ EncodeYields /\ has_dir /\ ~dir_exists
            => ~wrote /\ file = NoFile /\ diag /\ hook = "none" /\ raised = "none")
    /\ (op = "save" => ~made_dir)

C9_Witness ==
    /\ op = "save" /\ EncodeYields /\ has_dir /\ ~dir_exists /\ access
    /\ ~wrote /\ diag

\* ------------------------------------------------------------------ C10
LoadLeftBothUnchanged == ClassData = pre_class_data /\ objs = pre_objs

LoadReplacedAndMerged ==
    /\ ~ReadFails
    /\ class_data = [ref |-> "none", val |-> Decode(LoadCodec, file)]
    /\ ClassData.t = "map" /\ ClassData.fmt = "none"
    /\ hook_exc = "none"
    /\ HasAll(G, ClassData.m)

LoadReplacedNotMerged ==
    /\ ~ReadFails
    /\ class_data = [ref |-> "none", val |-> Decode(LoadCodec, file)]
    /\ ClassData.t # "map"
    /\ hook_exc = "TypeError" /\ raised = "none" /\ diag
    /\ objs = pre_objs

====
